---- MODULE Spec2Model ----
(***************************************************************************)
(* A model of colors/color.py: the Color value (construction from a hex    *)
(* triplet or an RGB tuple, derivation of the other representations,       *)
(* arithmetic and blend operations) and the ColorWheel generator.          *)
(*                                                                         *)
(* Reading of the source.  Line 145 of color.py is an unmatched ")" after  *)
(* the complete return statement of Color.divide (lines 142-144), so the   *)
(* file as it stands is rejected by the Python compiler.  The model reads  *)
(* every method as the statements that are written, with that one          *)
(* character dropped; every outcome below was reproduced by running the    *)
(* file so repaired under CPython 3.11.                                    *)
(*                                                                         *)
(* Representation.  A Python str is a sequence of one-character strings,   *)
(* a tuple is a sequence, None and an absent argument are the empty        *)
(* sequence (the code only tests their truth value), a float quotient      *)
(* x / 255.0 is the pair <<x, 255>>, a float literal is a pair <<n, d>>,   *)
(* and the value of a colorsys function is the term [fn, args].  A method  *)
(* call yields [obj, err, ret]: the object after the call, the exception   *)
(* raised ("none" if it returned) and the value returned, <<>> or <<v>>.   *)
(***************************************************************************)
EXTENDS Integers, Sequences, FiniteSets, TLC

VARIABLES
    c,      \* the Color object the calls are made on (its attributes)
    phase,  \* ColorWheel._phase, in units of 1/Scale
    err,    \* the exception the last call raised, "none" if it returned
    ret,    \* what the last call returned: <<>> (None) or <<value>>
    last,   \* the last call: [op |-> method, arg |-> its argument]
    clean   \* TRUE while no call on c has raised

vars == <<c, phase, err, ret, last, clean>>

----------------------------------------------------------------------------
(* Bounds of the model *)

\* from_rgb is tried with tuples of 1..MaxLen elements
MaxLen == 3
\* one unit of hue is Scale model units (phase 0.1 is Scale \div 10)
Scale == 20
\* ColorWheel is constructed with start in 0 .. MaxStart model units
MaxStart == 69

\* channel values the tuples tried by from_rgb and the draws of randomize are
\* made of: the two ends of the range
ChannelSamples == {0, 255}
\* two-digit groups the hex strings tried are made of: a leading zero with a
\* lowercase letter, an uppercase letter
HexGroups == {<<"0", "a">>, <<"F", "0">>}

----------------------------------------------------------------------------
(* Python built-ins the methods use *)

Min(a, b) == IF a <= b THEN a ELSE b
Max(a, b) == IF a >= b THEN a ELSE b

\* the module's global names: the imports, the two constants, the classes
Globals ==
    {"colorsys", "random", "re", "HEX_COLOR_PATTERN", "DEFAULT_COLOR",
     "Color", "ColorWheel"}

HexDigits == <<"0", "1", "2", "3", "4", "5", "6", "7",
               "8", "9", "a", "b", "c", "d", "e", "f">>
UpperDigits == <<"0", "1", "2", "3", "4", "5", "6", "7",
                 "8", "9", "A", "B", "C", "D", "E", "F">>

\* [a-fA-F0-9]
IsHexChar(ch) ==
    \E i \in 1..16 : ch = HexDigits[i] \/ ch = UpperDigits[i]

\* the value of one hexadecimal digit, either case
DigitValue(ch) ==
    (CHOOSE i \in 1..16 : ch = HexDigits[i] \/ ch = UpperDigits[i]) - 1

\* str.lower() on one character
LowerChar(ch) ==
    IF \E i \in 11..16 : ch = UpperDigits[i]
    THEN HexDigits[CHOOSE i \in 11..16 : ch = UpperDigits[i]]
    ELSE ch

\* str.lower()
lower(s) == [i \in 1..Len(s) |-> LowerChar(s[i])]

\* int(x, base=16) for a string of hexadecimal digits
RECURSIVE int16(_)
int16(x) ==
    IF Len(x) = 0 THEN 0
    ELSE 16 * int16(SubSeq(x, 1, Len(x) - 1)) + DigitValue(x[Len(x)])

\* format(x, "x") for an integer: lowercase hexadecimal, no padding
RECURSIVE format_x(_)
format_x(x) ==
    IF x < 0 THEN <<"-">> \o format_x(-x)
    ELSE IF x < 16 THEN <<HexDigits[x + 1]>>
    ELSE format_x(x \div 16) \o <<HexDigits[(x % 16) + 1]>>

\* "".join(parts)
RECURSIVE join(_)
join(parts) ==
    IF Len(parts) = 0 THEN <<>> ELSE Head(parts) \o join(Tail(parts))

\* zip(a, b): pairs up to the shorter length
zip(a, b) == [i \in 1..Min(Len(a), Len(b)) |-> <<a[i], b[i]>>]

\* re.match(HEX_COLOR_PATTERN, s).groups(), <<>> when there is no match.
\* "#?" takes a leading "#"; "$" also matches before one final newline.
HexMatch(s) ==
    LET t == IF Len(s) > 0 /\ s[Len(s)] = "\n"
             THEN SubSeq(s, 1, Len(s) - 1) ELSE s
        b == IF Len(t) > 0 /\ t[1] = "#" THEN Tail(t) ELSE t
    IN  IF Len(b) = 6 /\ \A i \in 1..6 : IsHexChar(b[i])
        THEN <<SubSeq(b, 1, 2), SubSeq(b, 3, 4), SubSeq(b, 5, 6)>>
        ELSE <<>>

\* the value a colorsys function returns for these arguments
Apply(fn, args) == [fn |-> fn, args |-> args]

----------------------------------------------------------------------------
(* Outcomes of a call *)

Return(obj, v) == [obj |-> obj, err |-> "none", ret |-> v]
Raise(obj, e) == [obj |-> obj, err |-> e, ret |-> <<>>]

----------------------------------------------------------------------------
(* class Color *)

\* Color._from_self_rgb
from_self_rgb(self) ==
    IF Len(self.rgb) > 0
    THEN LET fraction == [i \in 1..Len(self.rgb) |-> <<self.rgb[i], 255>>]
             s1 == [self EXCEPT
                      !.rgb_fraction = fraction,
                      !.hex_triplet =
                          join([i \in 1..Len(self.rgb) |-> format_x(self.rgb[i])])]
         IN  \* rgb_to_hsv(r, g, b) takes exactly three positional arguments
             IF Len(fraction) # 3 THEN Raise(s1, "TypeError")
             ELSE Return([s1 EXCEPT
                            !.hsv = Apply("rgb_to_hsv", fraction),
                            !.hls = Apply("rgb_to_hls", fraction),
                            !.yiq = Apply("rgb_to_yiq", fraction),
                            !.color = self.rgb],
                         <<>>)
    ELSE Return(self, <<>>)

\* Color.from_hex_triplet
from_hex_triplet(self, hex_triplet) ==
    LET groups == HexMatch(hex_triplet)
    IN  IF Len(groups) > 0
        THEN from_self_rgb([self EXCEPT
                              !.hex_triplet = lower(join(groups)),
                              !.rgb = [i \in 1..3 |-> int16(groups[i])]])
        ELSE Raise(self, "ValueError")

\* from_rgb without the upper limit of line 55
from_rgb_no_upper_limit(self, rgb) ==
    IF \E i \in 1..Len(rgb) : rgb[i] < 0
    THEN Raise(self, "ValueError")
    ELSE from_self_rgb([self EXCEPT !.rgb = rgb])

\* Color.from_rgb
from_rgb(self, rgb) ==
    IF \E i \in 1..Len(rgb) : rgb[i] < 0 \/ rgb[i] > 255
    THEN Raise(self, "ValueError")
    ELSE from_self_rgb([self EXCEPT !.rgb = rgb])

\* Color.from_hsv: s, v and h are neither parameters nor globals
from_hsv(self, hsv) ==
    IF "s" \notin Globals THEN Raise(self, "NameError")
    ELSE IF "v" \notin Globals THEN Raise(self, "NameError")
    ELSE \* h is assigned in the body, so it is a local read before assignment
         Raise(self, "UnboundLocalError")

\* Color.from_hls
from_hls(self, hls) ==
    IF "hls_to_rgb" \notin Globals THEN Raise(self, "NameError")
    ELSE from_self_rgb([self EXCEPT !.rgb = Apply("hls_to_rgb", hls)])

\* Color.from_yiq
from_yiq(self, yiq) ==
    IF "hsv_to_rgb" \notin Globals THEN Raise(self, "NameError")
    ELSE from_self_rgb([self EXCEPT !.rgb = Apply("hsv_to_rgb", yiq)])

\* an object before __init__ has set any attribute
Blank ==
    [rgb |-> <<>>, rgb_fraction |-> <<>>, hex_triplet |-> <<>>,
     hsv |-> <<>>, hls |-> <<>>, yiq |-> <<>>, color |-> <<>>]

DEFAULT_COLOR == <<"#", "3", "3", "3", "3", "3", "3">>

\* Color.__init__: the first argument that is truthy decides
init(hex_triplet, rgb, hsv, hls, yiq) ==
    IF Len(hex_triplet) > 0 THEN from_hex_triplet(Blank, hex_triplet)
    ELSE IF Len(rgb) > 0 THEN from_rgb(Blank, rgb)
    ELSE IF Len(hsv) > 0 THEN from_hsv(Blank, hsv)
    ELSE IF Len(hls) > 0 THEN from_hls(Blank, hls)
    ELSE IF Len(yiq) > 0 THEN from_yiq(Blank, yiq)
    ELSE from_hex_triplet(Blank, DEFAULT_COLOR)

\* Color(rgb=t): the object on success, the exception otherwise
NewColor(rgb) == init(<<>>, rgb, <<>>, <<>>, <<>>)

\* tuple(map(lambda x, y: ..., *iterables)): map needs an iterable, stops at
\* the shortest one, and calls the lambda with one item of each, so a lambda
\* of two parameters needs two iterables.  [err, args]: the exception, and
\* the argument pair of each call of the lambda
tuple_map(iterables) ==
    IF Len(iterables) = 0 THEN [err |-> "TypeError", args |-> <<>>]
    ELSE LET n == IF Len(iterables) = 1 THEN Len(iterables[1])
                  ELSE Min(Len(iterables[1]), Len(iterables[2]))
         IN  IF n = 0 THEN [err |-> "none", args |-> <<>>]
             ELSE IF Len(iterables) # 2
             THEN [err |-> "TypeError", args |-> <<>>]
             ELSE [err |-> "none",
                   args |-> [i \in 1..n |-> <<iterables[1][i], iterables[2][i]>>]]

\* return Color(rgb=t): the exception raised while building t, the
\* constructor's, or the new object
ReturnColor(self, e, t) ==
    IF e # "none" THEN Raise(self, e)
    ELSE LET new == NewColor(t)
         IN  IF new.err # "none" THEN Raise(self, new.err)
             ELSE Return(self, <<new.obj>>)

\* Color.multiply: lambda x, y: (x * y) / 255.0
multiply(self, other) ==
    LET m == tuple_map(<<zip(self.rgb, other.rgb)>>)
    IN  ReturnColor(self, m.err,
            [i \in 1..Len(m.args) |-> <<m.args[i][1] * m.args[i][2], 255>>])

\* Color.add: lambda x, y: min(255, (x + y))
add(self, other) ==
    LET m == tuple_map(<<zip(self.rgb, other.rgb)>>)
    IN  ReturnColor(self, m.err,
            [i \in 1..Len(m.args) |-> Min(255, m.args[i][1] + m.args[i][2])])

\* divide without the test of lines 139-140
divide_no_zero_test(self, other) ==
    LET m == tuple_map(<<>>)
    IN  ReturnColor(self, m.err,
            [i \in 1..Len(m.args) |-> <<m.args[i][1], m.args[i][2]>>])

\* Color.divide: line 143 closes map( after the lambda, so map gets no iterable
divide(self, other) ==
    IF \E i \in 1..Len(other.rgb) : other.rgb[i] = 0
    THEN Raise(self, "ZeroDivisionError")
    ELSE LET m == tuple_map(<<>>)
         IN  ReturnColor(self, m.err,
                 [i \in 1..Len(m.args) |-> <<m.args[i][1], m.args[i][2]>>])

\* Color.subtract: lambda x, y: max(255, (x - y))
subtract(self, other) ==
    LET m == tuple_map(<<zip(self.rgb, other.rgb)>>)
    IN  ReturnColor(self, m.err,
            [i \in 1..Len(m.args) |-> Max(255, m.args[i][1] - m.args[i][2])])

\* Color.screen: the first return statement; the second is never reached
screen(self, other) ==
    LET m == tuple_map(<<zip(self.rgb, other.rgb)>>)
    IN  ReturnColor(self, m.err,
            [i \in 1..Len(m.args) |-> Max(255, m.args[i][1] - m.args[i][2])])

\* Color.difference: the callee RGBColor is looked up before its arguments
difference(self, other) ==
    IF "RGBColor" \notin Globals THEN Raise(self, "NameError")
    ELSE \* self.rgb is a tuple: it has no attribute red
         Raise(self, "AttributeError")

\* Color.overlay
overlay(self, other) ==
    LET m == multiply(self, other)
    IN  IF m.err # "none" THEN Raise(self, m.err)
        ELSE screen(self, m.ret[1])

\* Color.invert
invert(self) ==
    IF "RGBColor" \notin Globals THEN Raise(self, "NameError")
    ELSE difference(self, NewColor(<<255, 255, 255>>).obj)

\* Color.__eq__: self.rgb is a tuple, which has no attribute red
eq(self, other) == Raise(self, "AttributeError")

\* random.randrange(n): one of 0 .. n-1, here those among the channel samples
randrange(n) == {x \in ChannelSamples : 0 <= x /\ x < n}

\* Color.randomize: the outcomes, one per draw
randomize(self) ==
    {from_rgb(self, rand_rgb) : rand_rgb \in [1..3 -> randrange(256)]}

----------------------------------------------------------------------------
(* class ColorWheel *)

\* ColorWheel.__init__: the phase it stores
wheel_init(start) == IF start >= Scale THEN start - Scale ELSE start

\* random_.random() * 0.1 + 0.1: a shift in [0.1, 0.2)
Shifts == (Scale \div 10) .. ((2 * Scale) \div 10 - 1)

\* ColorWheel.next: the outcomes [phase, err, ret]; random_ and HSVColor are
\* no names of the module
wheel_next(p) ==
    IF "random_" \notin Globals
    THEN {[phase |-> p, err |-> "NameError", ret |-> <<>>]}
    ELSE {LET q == p + shift
              r == IF q >= Scale THEN q - Scale ELSE q
          IN  IF "HSVColor" \notin Globals
              THEN [phase |-> r, err |-> "NameError", ret |-> <<>>]
              ELSE [phase |-> r, err |-> "none",
                    ret |-> <<init(<<>>, <<>>, <<<<r, Scale>>, <<1, 1>>, <<4, 5>>>>,
                                   <<>>, <<>>).obj>>]
          : shift \in Shifts}

----------------------------------------------------------------------------
(* Inputs *)

\* the tuples of 0 .. n elements of S
RECURSIVE TuplesOf(_, _)
TuplesOf(S, n) ==
    IF n = 0 THEN {<<>>}
    ELSE LET shorter == TuplesOf(S, n - 1)
         IN  shorter \cup {Append(t, x) : t \in {u \in shorter : Len(u) = n - 1}, x \in S}

\* the non-empty tuples of in-range channels up to the length tried, triples with a channel
\* just outside the range, and the triples of the documented scenarios
RgbInputs ==
    {t \in TuplesOf(ChannelSamples, MaxLen) : Len(t) >= 1}
        \cup {<<-1, 0, 0>>, <<0, 256, 0>>, <<255, 255, 256>>, <<0, 0, -1>>}
        \cup {<<51, 51, 102>>, <<10, 20, 30>>}

\* three groups, with and without the leading "#"
HexBodies == {g[1] \o g[2] \o g[3] : g \in [1..3 -> HexGroups]}

ValidHexInputs ==
    HexBodies \cup {<<"#">> \o b : b \in HexBodies}
        \cup {<<"#", "3", "3", "6", "6", "9", "9">>,
              <<"#", "0", "a", "0", "B", "0", "c">>,
              <<"3", "3", "6", "6", "9", "9", "\n">>}

\* strings the pattern rejects: empty, too short, too long, a bad character
InvalidHexInputs ==
    {<<>>, <<"#">>,
     <<"3", "3", "6", "6", "9">>,
     <<"#", "3", "3", "6", "6", "9", "9", "9">>,
     <<"g", "3", "6", "6", "9", "9">>,
     <<"#", "#", "3", "3", "6", "6", "9", "9">>}

HexInputs == ValidHexInputs \cup InvalidHexInputs

\* triples tried by from_hsv, from_hls, from_yiq:
\* (0.0, 1.0, 1.0), (0.2, 1.0, 0.8), (0.0, 1.5, 1.0)
FloatInputs ==
    {<<<<0, 1>>, <<1, 1>>, <<1, 1>>>>,
     <<<<1, 5>>, <<1, 1>>, <<4, 5>>>>,
     <<<<0, 1>>, <<3, 2>>, <<1, 1>>>>}

\* the other operand of a binary operation: Color(rgb=t), and a Color whose
\* rgb was emptied by from_rgb(())
OtherTriples ==
    {<<0, 0, 0>>, <<255, 255, 255>>, <<51, 51, 102>>, <<102, 51, 51>>,
     <<0, 50, 50>>}

Others ==
    {NewColor(t).obj : t \in OtherTriples}
        \cup {from_rgb(NewColor(<<0, 0, 0>>).obj, <<>>).obj}

----------------------------------------------------------------------------
(* The calls *)

\* the state after calling op(arg) with outcome out
Call(op, arg, out) ==
    /\ c' = out.obj
    /\ err' = out.err
    /\ ret' = out.ret
    /\ last' = [op |-> op, arg |-> arg]
    /\ clean' = (clean /\ out.err = "none")
    /\ UNCHANGED phase

FromHexTriplet ==
    \E s \in HexInputs : Call("from_hex_triplet", s, from_hex_triplet(c, s))

FromRgb == \E t \in RgbInputs : Call("from_rgb", t, from_rgb(c, t))

FromHsv == \E t \in FloatInputs : Call("from_hsv", t, from_hsv(c, t))

FromHls == \E t \in FloatInputs : Call("from_hls", t, from_hls(c, t))

FromYiq == \E t \in FloatInputs : Call("from_yiq", t, from_yiq(c, t))

Randomize == \E out \in randomize(c) : Call("randomize", <<>>, out)

Multiply == \E o \in Others : Call("multiply", o, multiply(c, o))

Add == \E o \in Others : Call("add", o, add(c, o))

Divide == \E o \in Others : Call("divide", o, divide(c, o))

Subtract == \E o \in Others : Call("subtract", o, subtract(c, o))

Screen == \E o \in Others : Call("screen", o, screen(c, o))

Difference == \E o \in Others : Call("difference", o, difference(c, o))

Overlay == \E o \in Others : Call("overlay", o, overlay(c, o))

Invert == Call("invert", <<>>, invert(c))

Eq == \E o \in Others : Call("__eq__", o, eq(c, o))

\* Color(): the default color
DefaultColor == init(<<>>, <<>>, <<>>, <<>>, <<>>).obj

\* arguments the constructor is tried with: none, a hex string, an RGB tuple,
\* or both (the hex string then decides)
CtorHex ==
    {<<>>, <<"#", "3", "3", "6", "6", "9", "9">>, <<"3", "3", "6", "6", "9">>}

CtorRgb == {<<>>, <<51, 51, 102>>, <<255, 0, 255>>, <<0, 256, 0>>}

\* a Color whose constructor returned, and a ColorWheel()
Init ==
    \E h \in CtorHex, t \in CtorRgb :
        LET out == init(h, t, <<>>, <<>>, <<>>)
        IN  /\ out.err = "none"
            /\ c = out.obj
            /\ phase = wheel_init(0)
            /\ err = "none"
            /\ ret = <<>>
            /\ last = [op |-> "__init__", arg |-> <<h, t>>]
            /\ clean = TRUE

Next ==
    \/ FromHexTriplet
    \/ FromRgb
    \/ FromHsv
    \/ FromHls
    \/ FromYiq
    \/ Randomize
    \/ Multiply
    \/ Add
    \/ Divide
    \/ Subtract
    \/ Screen
    \/ Difference
    \/ Overlay
    \/ Invert
    \/ Eq

Spec == Init /\ [][Next]_vars

----------------------------------------------------------------------------
(* The hue wheel on its own *)

WheelInit ==
    \E start \in 0..MaxStart :
        /\ c = DefaultColor
        /\ phase = wheel_init(start)
        /\ err = "none"
        /\ ret = <<>>
        /\ last = [op |-> "ColorWheel", arg |-> start]
        /\ clean = TRUE

WheelNext ==
    \E out \in wheel_next(phase) :
        /\ phase' = out.phase
        /\ err' = out.err
        /\ ret' = out.ret
        /\ last' = [op |-> "next", arg |-> phase]
        /\ clean' = (clean /\ out.err = "none")
        /\ UNCHANGED c

WheelSpec == WheelInit /\ [][WheelNext]_vars

----------------------------------------------------------------------------
(* Properties *)

IsTriple(color) == Len(color.rgb) = 3

\* C1: after from_hex_triplet(s) returns for a string s that matches the hex
\* pattern, hex_triplet is the six digits of s in lowercase (six characters,
\* no "#") and rgb is the three two-digit groups read in base 16.
C1_HexTripletStored ==
    (last.op = "from_hex_triplet" /\ Len(HexMatch(last.arg)) > 0) =>
        LET groups == HexMatch(last.arg)
        IN  /\ err = "none"
            /\ Len(c.hex_triplet) = 6
            /\ c.hex_triplet = lower(join(groups))
            /\ c.rgb = [i \in 1..3 |-> int16(groups[i])]

\* C2: after construction and after any sequence of calls that all returned
\* without error, every channel of rgb is an integer in [0, 255].
C2_RgbInRange ==
    clean => \A i \in 1..Len(c.rgb) : c.rgb[i] \in 0..255

\* C2, its case: randomize has returned with a channel at the upper end
C2_Witness ==
    /\ clean
    /\ last.op = "randomize"
    /\ err = "none"
    /\ c.rgb = <<255, 0, 255>>

\* C3: add(a, b) returns a new Color whose rgb is min(255, x + y) channel by
\* channel, so every channel lies in [0, 255].
C3_AddSaturates ==
    (last.op = "add" /\ IsTriple(c) /\ IsTriple(last.arg)) =>
        /\ err = "none"
        /\ Len(ret) = 1
        /\ ret[1].rgb = [i \in 1..3 |-> Min(255, c.rgb[i] + last.arg.rgb[i])]
        /\ \A i \in 1..3 : ret[1].rgb[i] \in 0..255

\* C4: subtract(a, b) returns a new Color whose rgb is x - y clamped to
\* [0, 255] channel by channel, so subtracting black gives the color back.
C4_SubtractSaturates ==
    (last.op = "subtract" /\ IsTriple(c) /\ IsTriple(last.arg)) =>
        /\ err = "none"
        /\ Len(ret) = 1
        /\ ret[1].rgb =
               [i \in 1..3 |-> Min(255, Max(0, c.rgb[i] - last.arg.rgb[i]))]
        /\ (last.arg.rgb = <<0, 0, 0>> => ret[1].rgb = c.rgb)

\* C5: divide(a, b) fails with ZeroDivisionError whenever a channel of b.rgb
\* is 0, whatever a is.
C5_DivideByZeroFails ==
    (last.op = "divide" /\ \E i \in 1..Len(last.arg.rgb) : last.arg.rgb[i] = 0)
        => err = "ZeroDivisionError"

\* C5, its case: a full Color was divided by rgb (0, 50, 50)
C5_Witness ==
    /\ last.op = "divide"
    /\ last.arg.rgb = <<0, 50, 50>>
    /\ IsTriple(c)
    /\ err = "ZeroDivisionError"

\* C6: invert(c) returns the Color with channels abs(x - 255), and inverting
\* that one gives a Color with the rgb of c.
C6_InvertInvolution ==
    (last.op = "invert" /\ IsTriple(c)) =>
        /\ err = "none"
        /\ Len(ret) = 1
        /\ ret[1].rgb = [i \in 1..3 |-> 255 - c.rgb[i]]
        /\ invert(ret[1]).err = "none"
        /\ invert(ret[1]).ret[1].rgb = c.rgb

\* C7: the phase of a hue wheel lies in [0, 1) right after construction with
\* any start >= 0 and after any number of next calls.
C7_PhaseInRange == 0 <= phase /\ phase < Scale

\* C8: screen(a, b) returns a new Color whose rgb is
\* 255 - ((255 - x) * (255 - y)) / 255 channel by channel.
C8_ScreenFormula ==
    (last.op = "screen" /\ IsTriple(c) /\ IsTriple(last.arg)) =>
        /\ err = "none"
        /\ Len(ret) = 1
        /\ \A i \in 1..3 :
               255 * ret[1].rgb[i] =
                   255 * 255 - (255 - c.rgb[i]) * (255 - last.arg.rgb[i])

FromCalls ==
    {"from_hex_triplet", "from_rgb", "from_hsv", "from_hls", "from_yiq"}

\* C9: a from_hex_triplet, from_rgb, from_hsv, from_hls or from_yiq call that
\* raises leaves every field of the Color as it was before the call.
C9_FailedCallChangesNothing ==
    [][(last'.op \in FromCalls /\ err' # "none") => c' = c]_vars

\* C10: a next call on a wheel of phase p returns normally, sets the phase to
\* p + step wrapped into [0, 1) for a step in [0.1, 0.2), and returns a Color
\* built from the HSV triple (new phase, 1.0, 0.8).
C10_NextReturnsColor ==
    last.op = "next" =>
        /\ err = "none"
        /\ \E shift \in Shifts : phase = (last.arg + shift) % Scale
        /\ Len(ret) = 1
        /\ ret[1].hsv = <<<<phase, Scale>>, <<1, 1>>, <<4, 5>>>>

====
